---- MODULE Spec2Model ----
(***************************************************************************)
(* Flight instructor scheduling (streamlit_app.py).                        *)
(*                                                                         *)
(* The program collects instructors, students and an aircraft count,       *)
(* builds a 0/1 linear program (create_optimization_model), hands it to    *)
(* the CBC solver, reads the variable values back                          *)
(* (solve_and_display_results) and reports counts and utilization          *)
(* (the "Run Optimization" handler).                                       *)
(*                                                                         *)
(* Four specifications share  the actions and differ in the arguments:     *)
(*   Spec      lists of any length, courses from course_ids, capacity >= 0 *)
(*             (every state of the application is one of these);           *)
(*   SpecApp   the application: what the widgets can produce (counts and   *)
(*             capacity >= 1);                                             *)
(*   SpecCourse  as Spec, and also a course outside course_ids;            *)
(*   SpecCall  the two functions called with arbitrary arguments: also a   *)
(*             course outside course_ids and a negative capacity.          *)
(***************************************************************************)
EXTENDS Integers, FiniteSets, Sequences

\* ---------------------------------------------------------------- bounds
MaxInstructors == 2
MaxStudents == 2
MaxAircraft == 2

\* ------------------------------------------------------ program constants
\* st.number_input(..., min_value=1) of the three widgets
MinAircraft == 1
MinInstructors == 1
MinStudents == 1

\* course_ids = [1, 2, 3]; also the options of the course radio
course_ids == {1, 2, 3}

\* Arguments a direct caller may pass: one course value outside course_ids,
\* and capacities from -1 upwards.
CallCourses == course_ids \cup {0}
CallAircraft == (-1) .. MaxAircraft

VARIABLES
    instructors,        \* [0..n-1 -> [id, qualifications]]
    students,           \* [0..m-1 -> [id, course]]
    aircraft_count,
    instructor_count,
    student_count,
    pc,                 \* position in the Run Optimization handler
    model,              \* the LpProblem: its set of constraints, or NoModel
    x,                  \* pairs whose variable reads back as 1, or NoValues
    results,            \* rows appended by solve_and_display_results
    assigned_students,
    unassigned_students,
    display             \* what the handler showed

vars == <<instructors, students, aircraft_count, instructor_count, student_count,
          pc, model, x, results, assigned_students, unassigned_students, display>>

NoModel == "NoModel"
NoValues == "NoValues"
NotShown == [kind |-> "none"]

\* ------------------------------------------------------------- helpers
\* range(len(instructors)), range(len(students))
Ids(f) == DOMAIN f

\* the keys of the dict x: one binary variable per (i, j)
Variables(ins, stu) == Ids(ins) \X Ids(stu)

\* A linear constraint whose coefficients are all 1: sum(vars) sense rhs.
Con(vs, sense, rhs) == [vars |-> vs, sense |-> sense, rhs |-> rhs]

\* Constraint 1: each instructor teaches at most one student
InstructorConstraintsTwo(ins, stu) ==
    { Con({<<i, j>> : j \in Ids(stu)}, "<=", 2) : i \in Ids(ins) }

InstructorConstraints(ins, stu) ==
    { Con({<<i, j>> : j \in Ids(stu)}, "<=", 1) : i \in Ids(ins) }

\* Constraint 2: each student has at most one instructor
StudentConstraints(ins, stu) ==
    { Con({<<i, j>> : i \in Ids(ins)}, "<=", 1) : j \in Ids(stu) }

\* Constraint 3: x[i, j] == 0 for each course of course_ids that the
\* instructor lacks and the student needs
QualificationConstraintsNone(ins, stu) == {}

QualificationConstraintsInverted(ins, stu) ==
    { Con({<<p[1], p[2]>>}, "==", 0) :
        p \in { q \in Ids(ins) \X Ids(stu) \X course_ids :
                  /\ q[3] \in ins[q[1]].qualifications
                  /\ q[3] = stu[q[2]].course } }

QualificationConstraints(ins, stu) ==
    { Con({<<p[1], p[2]>>}, "==", 0) :
        p \in { q \in Ids(ins) \X Ids(stu) \X course_ids :
                  /\ q[3] \notin ins[q[1]].qualifications
                  /\ q[3] = stu[q[2]].course } }

\* Constraint 4: total assignments limited by aircraft availability
AircraftConstraintLoose(ins, stu, cap) ==
    { Con(Variables(ins, stu), "<=", cap + 1) }

AircraftConstraintStrict(ins, stu, cap) ==
    { Con(Variables(ins, stu), "<=", cap - 1) }

AircraftConstraintFlipped(ins, stu, cap) ==
    { Con(Variables(ins, stu), ">=", cap) }

AircraftConstraint(ins, stu, cap) ==
    { Con(Variables(ins, stu), "<=", cap) }

\* create_optimization_model: the constraints added to the LpProblem.  The
\* function has no validation and no raise statement: it returns a model for
\* every argument.
create_optimization_model(ins, stu, cap) ==
    InstructorConstraints(ins, stu)
      \cup StudentConstraints(ins, stu)
      \cup QualificationConstraints(ins, stu)
      \cup AircraftConstraint(ins, stu, cap)

\* ------------------------------------------------------------- the solver
\* X is the set of variables at 1, all others at 0.
Holds(c, X) ==
    LET lhs == Cardinality(c.vars \cap X)
    IN  CASE c.sense = "<=" -> lhs <= c.rhs
          [] c.sense = ">=" -> lhs >= c.rhs
          [] c.sense = "==" -> lhs = c.rhs

\* Variables a constraint "sum == 0" or "sum <= 0" pins to 0.
Pins(c) == c.sense \in {"==", "<="} /\ c.rhs = 0

Fixed0(cons) == UNION { c.vars : c \in { d \in cons : Pins(d) } }

\* The feasible 0/1 points: no pinned variable at 1, every other constraint
\* satisfied.
Feasible(cons, vs) ==
    LET pinned == Fixed0(cons)
        open == { c \in cons : ~ Pins(c) }
    IN  { X \in SUBSET (vs \ pinned) : \A c \in open : Holds(c, X) }

\* LpMaximize of lpSum(x[i, j]): the points of F of greatest cardinality
Optimal(F) ==
    LET sizes == { Cardinality(X) : X \in F }
        best == CHOOSE k \in sizes : \A l \in sizes : l <= k
    IN  { X \in F : Cardinality(X) = best }

\* model.solve(PULP_CBC_CMD): an optimal point when the problem is feasible.
\* The code never reads the solver status, so for an infeasible problem the
\* values it reads back are whatever the solver left: any 0/1 pattern.
SolverOutputs(cons, vs) ==
    LET F == Feasible(cons, vs)
    IN  IF F # {} THEN Optimal(F) ELSE SUBSET vs

\* -------------------------------------------------------- result extraction
\* the double loop of solve_and_display_results, pair k of the row-major
\* order (i = k \div m, j = k % m)
RECURSIVE Rows(_, _, _, _, _)
Rows(ins, stu, X, k, acc) ==
    LET n == Cardinality(Ids(ins))
        m == Cardinality(Ids(stu))
    IN  IF k >= n * m THEN acc
        ELSE LET i == k \div m
                 j == k % m
                 row == [InstructorID |-> i + 1,
                         InstructorQualifications |-> ins[i].qualifications,
                         StudentID |-> j + 1,
                         StudentCourse |-> stu[j].course]
             IN  Rows(ins, stu, X, k + 1,
                      IF <<i, j>> \in X
                      THEN [results |-> Append(acc.results, row),
                            assigned_students |-> acc.assigned_students + 1]
                      ELSE acc)

NoRows == [results |-> <<>>, assigned_students |-> 0]

\* unassigned_students = total_students - assigned_students
UnassignedWrong(total, assigned) == total

Unassigned(total, assigned) == total - assigned

\* the unassigned-student rows built from the complement of the
\* "Student ID" column
RECURSIVE UnassignedRows(_, _, _, _)
UnassignedRows(stu, ids, j, acc) ==
    IF j >= Cardinality(Ids(stu)) THEN acc
    ELSE UnassignedRows(stu, ids, j + 1,
            IF (j + 1) \notin ids
            THEN Append(acc, [StudentID |-> j + 1, Course |-> stu[j].course])
            ELSE acc)

StudentIdColumn(rows) == { rows[k].StudentID : k \in 1 .. Len(rows) }

\* the guard of the results branch
ShowResultsAlways(assigned) == assigned >= 0

ShowResults(assigned) == assigned > 0

\* a Python int division: ZeroDivisionError on a zero divisor, otherwise the
\* quotient (kept exact as numerator and denominator)
Ratio(a, b) == [num |-> a * 100, den |-> b]

\* ---------------------------------------------------------------- Init
InstructorRecs(n) ==
    { f \in [0 .. n - 1 -> [id : 1 .. n, qualifications : SUBSET course_ids]] :
        \A i \in 0 .. n - 1 : f[i].id = i + 1 }

StudentRecs(m, courses) ==
    { f \in [0 .. m - 1 -> [id : 1 .. m, course : courses]] :
        \A j \in 0 .. m - 1 : f[j].id = j + 1 }

InitRest ==
    /\ pc = "input"
    /\ model = NoModel
    /\ x = NoValues
    /\ results = <<>>
    /\ assigned_students = 0
    /\ unassigned_students = 0
    /\ display = NotShown

\* arguments within the data model: courses from course_ids, capacity >= 0
Init ==
    /\ instructor_count \in 0 .. MaxInstructors
    /\ student_count \in 0 .. MaxStudents
    /\ aircraft_count \in 0 .. MaxAircraft
    /\ instructors \in InstructorRecs(instructor_count)
    /\ students \in StudentRecs(student_count, course_ids)
    /\ InitRest

\* the widgets: counts and capacity at least 1, courses from the radio
InitApp ==
    /\ instructor_count \in MinInstructors .. MaxInstructors
    /\ student_count \in MinStudents .. MaxStudents
    /\ aircraft_count \in MinAircraft .. MaxAircraft
    /\ instructors \in InstructorRecs(instructor_count)
    /\ students \in StudentRecs(student_count, course_ids)
    /\ InitRest

\* as Init, with courses outside course_ids as well
InitCourse ==
    /\ instructor_count \in 0 .. MaxInstructors
    /\ student_count \in 0 .. MaxStudents
    /\ aircraft_count \in 0 .. MaxAircraft
    /\ instructors \in InstructorRecs(instructor_count)
    /\ students \in StudentRecs(student_count, CallCourses)
    /\ InitRest

\* the functions called directly with arbitrary arguments
InitCall ==
    /\ instructor_count \in 0 .. MaxInstructors
    /\ student_count \in 0 .. MaxStudents
    /\ aircraft_count \in CallAircraft
    /\ instructors \in InstructorRecs(instructor_count)
    /\ students \in StudentRecs(student_count, CallCourses)
    /\ InitRest

\* ---------------------------------------------------------------- actions
\* line 136: model, x = create_optimization_model(...)
CreateModel ==
    /\ pc = "input"
    /\ model' = create_optimization_model(instructors, students, aircraft_count)
    /\ pc' = "built"
    /\ UNCHANGED <<instructors, students, aircraft_count, instructor_count,
                   student_count, x, results, assigned_students,
                   unassigned_students, display>>

\* lines 141-172: the results branch (utilization, unassigned students) or
\* the "No students could be assigned" error
Shown(rows, assigned, unassigned) ==
    IF ShowResults(assigned)
    THEN IF instructor_count = 0 \/ aircraft_count = 0
         THEN [kind |-> "ZeroDivisionError"]
         ELSE [kind |-> "results",
               instructor_utilization |-> Ratio(assigned, instructor_count),
               aircraft_utilization |-> Ratio(assigned, aircraft_count),
               unassigned_df |->
                   IF unassigned > 0
                   THEN UnassignedRows(students, StudentIdColumn(rows), 0, <<>>)
                   ELSE <<>>]
    ELSE [kind |-> "no_assignment"]

\* lines 137-172: solve_and_display_results (the solve, the rows and the two
\* counts), then the display of what it returned
SolveAndDisplay ==
    /\ pc = "built"
    /\ x' \in SolverOutputs(model, Variables(instructors, students))
    /\ LET r == Rows(instructors, students, x', 0, NoRows)
           u == Unassigned(Cardinality(Ids(students)), r.assigned_students)
       IN  /\ results' = r.results
           /\ assigned_students' = r.assigned_students
           /\ unassigned_students' = u
           /\ display' = Shown(r.results, r.assigned_students, u)
    /\ pc' = "done"
    /\ UNCHANGED <<instructors, students, aircraft_count, instructor_count,
                   student_count, model>>

Next == CreateModel \/ SolveAndDisplay

Spec == Init /\ [][Next]_vars

SpecApp == InitApp /\ [][Next]_vars

SpecCourse == InitCourse /\ [][Next]_vars

SpecCall == InitCall /\ [][Next]_vars

\* ------------------------------------------------------------ properties
\* solve_and_display_results has returned
Returned == pc = "done"

\* the assignedCount the two functions return for other arguments
RunCounts(ins, stu, cap) ==
    { Rows(ins, stu, X, 0, NoRows).assigned_students :
        X \in SolverOutputs(create_optimization_model(ins, stu, cap),
                            Variables(ins, stu)) }

Compatible(i, j) == students[j].course \in instructors[i].qualifications

IsMatching(M) == \A p, q \in M : (p[1] = q[1] \/ p[2] = q[2]) => p = q

\* the sets of pairs that satisfy instructor capacity, student exclusivity,
\* qualification compatibility and the aircraft ceiling
Assignments ==
    { M \in SUBSET { p \in Variables(instructors, students) : Compatible(p[1], p[2]) } :
        IsMatching(M) /\ Cardinality(M) <= aircraft_count }

\* C1: with at least one instructor and one student, courses in course_ids
\* and capacity >= 0, the returned assigned count is the greatest cardinality
\* of a set of pairs meeting the four conditions.
C1_Optimality ==
    (Returned /\ instructor_count >= 1 /\ student_count >= 1)
        => /\ \E M \in Assignments : Cardinality(M) = assigned_students
           /\ \A M \in Assignments : Cardinality(M) <= assigned_students

\* an instance where taking the first compatible pair for instructor 2 would
\* leave student 2 without an instructor
C1_Witness ==
    /\ pc = "done"
    /\ instructor_count = 2 /\ student_count = 2 /\ aircraft_count = 2
    /\ instructors[0].qualifications = {1}
    /\ instructors[1].qualifications = {1, 2}
    /\ students[0].course = 1 /\ students[1].course = 2
    /\ assigned_students = 2

\* C2: in the returned rows no instructor and no student appears twice.
C2_Matching ==
    Returned =>
        \A k, l \in 1 .. Len(results) :
            k # l => /\ results[k].InstructorID # results[l].InstructorID
                     /\ results[k].StudentID # results[l].StudentID

C2_Witness == pc = "done" /\ Len(results) = 2

\* C3: a pair is in the returned rows only if the student's course is among
\* the instructor's qualifications, for every argument of the functions.
C3_Qualified ==
    Returned =>
        \A k \in 1 .. Len(results) :
            results[k].StudentCourse \in results[k].InstructorQualifications

\* C4: the assigned count never exceeds the number of instructors, the
\* number of students or the aircraft count.
C4_Ceiling ==
    Returned => /\ assigned_students <= instructor_count
                /\ assigned_students <= student_count
                /\ assigned_students <= aircraft_count

\* the aircraft count is what limits the assignment
C4_Witness ==
    /\ pc = "done"
    /\ aircraft_count = 1 /\ instructor_count = 2 /\ student_count = 2
    /\ \A p \in Variables(instructors, students) : Compatible(p[1], p[2])
    /\ assigned_students = 1

InvalidInput ==
    \/ \E j \in Ids(students) : students[j].course \notin course_ids
    \/ aircraft_count < 0

\* C5: for a course outside course_ids or a negative capacity no model is
\* handed to the solver and no assignment is produced.
C5_Rejected ==
    InvalidInput => /\ pc \in {"input", "InvalidInputError"}
                    /\ results = <<>>

ZeroDivisor == instructor_count = 0 \/ aircraft_count = 0

PendingCounts ==
    { Rows(instructors, students, X, 0, NoRows).assigned_students :
        X \in SolverOutputs(model, Variables(instructors, students)) }

\* C7: the assigned count for the aircraft count in hand is at least the
\* assigned count for every capacity c1 with 0 <= c1 <= aircraft_count.
C7_CapacityMonotone ==
    pc = "built" =>
        \A n2 \in PendingCounts :
            \A c1 \in 0 .. aircraft_count :
                \A n1 \in RunCounts(instructors, students, c1) : n1 <= n2

\* the larger capacity gains an assignment
C7_Witness ==
    /\ pc = "done"
    /\ aircraft_count = 2
    /\ assigned_students = 2
    /\ RunCounts(instructors, students, 1) = {1}

\* instructor i without course c
WithoutQualification(i, c) ==
    [instructors EXCEPT ![i].qualifications = @ \ {c}]

\* C8: removing one course from one instructor's qualifications yields an
\* assigned count no greater than the one for the qualifications in hand.
C8_QualificationMonotone ==
    pc = "built" =>
        \A n2 \in PendingCounts :
            \A i \in Ids(instructors) :
                \A c \in instructors[i].qualifications :
                    \A n1 \in RunCounts(WithoutQualification(i, c), students,
                                        aircraft_count) : n1 <= n2

\* a removal that loses an assignment
C8_Witness ==
    /\ pc = "done"
    /\ assigned_students = 2
    /\ \E i \in Ids(instructors) :
         \E c \in instructors[i].qualifications :
             RunCounts(WithoutQualification(i, c), students, aircraft_count) = {1}

\* students that appear in no returned row
NotListed == { j \in Ids(students) : (j + 1) \notin StudentIdColumn(results) }

\* C9: the assigned count is the number of rows, the unassigned count is the
\* number of students minus the assigned count, is >= 0 and is the number of
\* students in no row; the unassigned-student list has that many entries.
C9_Counts ==
    Returned =>
        /\ assigned_students = Len(results)
        /\ unassigned_students = student_count - assigned_students
        /\ unassigned_students >= 0
        /\ unassigned_students = Cardinality(NotListed)
        /\ (display.kind = "results" /\ unassigned_students > 0)
               => Len(display.unassigned_df) = unassigned_students

C9_Witness ==
    /\ pc = "done"
    /\ display.kind = "results"
    /\ assigned_students = 1
    /\ unassigned_students = 1
    /\ Len(display.unassigned_df) = 1

\* C10: the utilization is computed only when assigned_students > 0, and then
\* instructor_count and aircraft_count are both >= 1, so no division by zero
\* is reached; with assigned_students = 0 the handler reports that no student
\* could be assigned and computes no utilization.
C10_NoDivisionByZero ==
    /\ display.kind # "ZeroDivisionError"
    /\ display.kind = "results"
          => /\ assigned_students > 0
             /\ instructor_count >= 1
             /\ aircraft_count >= 1
             /\ display.instructor_utilization.den # 0
             /\ display.aircraft_utilization.den # 0
    /\ (pc = "done" /\ assigned_students = 0)
          => display = [kind |-> "no_assignment"]

C10_Witness ==
    /\ pc = "done"
    /\ display.kind = "results"
    /\ display.aircraft_utilization = [num |-> 100, den |-> 1]

====
